---- MODULE Spec2Model ----
(***************************************************************************)
(* Model of emmental/meta.py: the process-wide Meta holder (log_path,      *)
(* config), init_logging, init_config, Meta.init, Meta.update_config and   *)
(* the bootstrap init.                                                     *)
(*                                                                         *)
(* A configuration document is a tagged value: k = "map" (a dict, m holds  *)
(* its items), k = "int" (a scalar, v holds it) or k = "none" (None).      *)
(* A path string is a sequence of one-character strings.                   *)
(***************************************************************************)
EXTENDS Integers, Sequences, FiniteSets, TLC

\* ------------------------------------------------------------------ bounds
MaxPathLen == 3      \* start paths: every string of at most this length
MaxDeep == 26        \* longest chain /a/a/.../a given as a start path
MaxStamp == 2        \* distinct clock readings (date, time)
NThreads == 2        \* threads of the concurrent specification
MaxRuns == 3         \* saturation of the counter of logging set-ups

\* ------------------------------------------------------- program constants
MAX_CONFIG_SEARCH_DEPTH == 25

\* --------------------------------------------------------------- documents
EmptyFn == [x \in {} |-> 0]
I(n) == [k |-> "int", v |-> n, m |-> EmptyFn]
M(f) == [k |-> "map", v |-> 0, m |-> f]
NoneDoc == [k |-> "none", v |-> 0, m |-> EmptyFn]
EmptyDict == M(EmptyFn)

\* Python truth value of a document: None, {} and 0 are false.
Truthy(d) ==
    CASE d.k = "map" -> DOMAIN d.m # {}
      [] d.k = "int" -> d.v # 0
      [] OTHER -> FALSE

\* emmental.utils.utils.merge: deep merge of two mappings, y wins.
RECURSIVE merge(_, _)
merge(x, y) ==
    M([key \in (DOMAIN x.m) \cup (DOMAIN y.m) |->
         IF key \in DOMAIN y.m
         THEN IF key \in DOMAIN x.m /\ x.m[key].k = "map" /\ y.m[key].k = "map"
              THEN merge(x.m[key], y.m[key])
              ELSE y.m[key]
         ELSE x.m[key]])

\* merge is defined on two mappings; on anything else it raises.
CanMerge(x, y) == x.k = "map" /\ y.k = "map"

\* Meta.config["meta_config"]["seed"]: the value, or the error raised.
SeedLookup(c) ==
    IF c.k # "map" THEN [err |-> "TypeError", seed |-> 0]
    ELSE IF "meta_config" \notin DOMAIN c.m THEN [err |-> "KeyError", seed |-> 0]
    ELSE LET mc == c.m["meta_config"] IN
         IF mc.k # "map" THEN [err |-> "TypeError", seed |-> 0]
         ELSE IF "seed" \notin DOMAIN mc.m THEN [err |-> "KeyError", seed |-> 0]
         ELSE [err |-> "", seed |-> mc.m["seed"].v]

\* ------------------------------------------------------------------- paths
Alphabet == {"/", "a", "b"}
Strs(n) == UNION {[1..k -> Alphabet] : k \in 0..n}

RECURSIVE Chain(_)
Chain(n) == IF n = 0 THEN <<>> ELSE Chain(n - 1) \o <<"/", "a">>

\* The last index at or below i where p holds "/", or 0.
RECURSIVE LastSlash(_, _)
LastSlash(p, i) ==
    IF i = 0 THEN 0 ELSE IF p[i] = "/" THEN i ELSE LastSlash(p, i - 1)

\* p.rfind("/") + 1
RFind(p) == LastSlash(p, Len(p))

\* The last index at or below i where s holds something else than "/", or 0.
RECURSIVE LastNonSlash(_, _)
LastNonSlash(s, i) ==
    IF i = 0 THEN 0 ELSE IF s[i] # "/" THEN i ELSE LastNonSlash(s, i - 1)

AllSlashes(s) == LastNonSlash(s, Len(s)) = 0

\* s.rstrip("/")
RStrip(s) == SubSeq(s, 1, LastNonSlash(s, Len(s)))

\* os.path.split(p)[0]
SplitHead(p) ==
    LET head == SubSeq(p, 1, RFind(p)) IN
    IF head # <<>> /\ ~AllSlashes(head) THEN RStrip(head) ELSE head

\* The components of a path string, empty ones dropped.
RECURSIVE Components(_)
Components(s) ==
    IF s = <<>> THEN <<>>
    ELSE LET i == RFind(s)
             tail == SubSeq(s, i + 1, Len(s))
             rest == Components(RStrip(SubSeq(s, 1, i)))
         IN IF tail = <<>> THEN rest ELSE Append(rest, tail)

\* The working directory of the process.
Cwd == << <<"a">> >>

\* The directory that os.path.join(current_dir, filename) looks into.
PotentialDir(current_dir) ==
    IF current_dir[1] = "/" THEN Components(current_dir)
    ELSE Cwd \o Components(current_dir)

\* The directories on disk: the root and the chain /a, /a/a, ...
DirOnDisk(d) == \A i \in 1..Len(d) : d[i] = <<"a">>

\* Directories that may hold the named config file.
CandDirs == {<<>>, << <<"a">> >>, << <<"a">>, <<"a">> >>}

\* The parsed contents of the config file in directory d.
FileDoc(d) == M("meta_config" :> M("seed" :> I(10 + Len(d))))

\* ------------------------------------------------------------------ inputs
NonePath == [given |-> FALSE, s |-> <<>>]
P(s) == [given |-> TRUE, s |-> s]

DeepLens == 24..MaxDeep
LongerPaths == {<<"/", "a", "/", "a">>, <<"/", "a", "/", "b">>}
AllPaths == {NonePath} \cup {P(s) : s \in Strs(MaxPathLen) \cup LongerPaths}
              \cup {P(Chain(n)) : n \in DeepLens}
MainPaths == {NonePath, P(<<"/", "a", "/", "a">>), P(<<"a">>), P(<<"/", "b">>)}

Overrides == {EmptyDict,
              M("meta_config" :> M("seed" :> I(1))),
              M("a" :> M("x" :> I(1)))}

DefaultConfig == M(("meta_config" :> M(("seed" :> I(0)) @@ ("verbose" :> I(1))))
                   @@ ("a" :> M(("x" :> I(0)) @@ ("y" :> I(2)))))
BundledDocs == {DefaultConfig, EmptyDict}

LogDirs == {"tmp"}
Stamps == 1..MaxStamp
Threads == 1..NThreads

\* ------------------------------------------------------------------- state
VARIABLES
    log_path,   \* Meta.log_path: <<>> (None) or <<log_dir, stamp>>
    config,     \* Meta.config
    dirs,       \* log directories created on disk
    handlers,   \* handlers of the root logger (the log directory of each)
    bodyRuns,   \* times the set-up body of init_logging has run (saturating)
    rng,        \* the seed last given to set_random_seed
    holders,    \* directories holding the named config file
    bad,        \* those of them whose file is malformed YAML
    bundled,    \* parsed contents of emmental-default-config.yaml
    last,       \* the last call: its arguments and its outcome
    pc,         \* concurrent specification: position of each thread
    active      \* concurrent specification: threads that have run a step

vars == <<log_path, config, dirs, handlers, bodyRuns, rng, holders, bad,
          bundled, last, pc, active>>

logVars == <<log_path, dirs, handlers, bodyRuns>>
fsVars == <<holders, bad, bundled>>
mtVars == <<pc, active>>

NoLogPath == <<>>
Unseeded == [seeded |-> FALSE, seed |-> 0]

NoSearch == [merged |-> <<>>, tries |-> 0, logged |-> FALSE]

\* dirty: the configuration before the call was loaded and then changed.
Call(op, ov, path, err, search, ranLog, ranCfg) ==
    [op |-> op, ov |-> ov, path |-> path, err |-> err,
     merged |-> search.merged, tries |-> search.tries, logged |-> search.logged,
     ranLog |-> ranLog, ranCfg |-> ranCfg, dirty |-> Truthy(config) /\ config # bundled]

\* ---------------------------------------------------------- init_logging
\* Lines 78-96: the set-up body, run with Meta.log_path seen unset.
LoggingBody(log_dir, stamp) ==
    LET path == <<log_dir, stamp>> IN
    /\ dirs' = dirs \cup {path}
    /\ handlers' = IF handlers = <<>> THEN <<path>> ELSE handlers
    /\ log_path' = path
    /\ bodyRuns' = IF bodyRuns < MaxRuns THEN bodyRuns + 1 ELSE bodyRuns

\* Mutant: the test of line 76 always passes.
LogPathUnset_Always == TRUE

\* The test of line 76, "not Meta.log_path".
LogPathUnset == log_path = NoLogPath

\* Mutant: the body runs whether or not the log path is set.
init_logging_call_NoGuard(log_dir, stamp) == LoggingBody(log_dir, stamp)

\* The whole call, run without interruption.
init_logging_call(log_dir, stamp) ==
    IF LogPathUnset THEN LoggingBody(log_dir, stamp) ELSE UNCHANGED logVars

init_logging(log_dir, stamp) ==
    /\ init_logging_call(log_dir, stamp)
    /\ last' = Call("init_logging", EmptyDict, NonePath, "", NoSearch,
                    LogPathUnset, FALSE)
    /\ UNCHANGED <<config, rng, fsVars, mtVars>>

\* ----------------------------------------------------------- init_config
\* Mutant: the default is loaded only over an unset or empty configuration.
init_config_IfUnset ==
    /\ config' = (IF Truthy(config) THEN config ELSE bundled)
    /\ last' = Call("init_config", EmptyDict, NonePath, "", NoSearch, FALSE, TRUE)
    /\ UNCHANGED <<logVars, rng, fsVars, mtVars>>

init_config ==
    /\ config' = bundled
    /\ last' = Call("init_config", EmptyDict, NonePath, "", NoSearch, FALSE, TRUE)
    /\ UNCHANGED <<logVars, rng, fsVars, mtVars>>

\* -------------------------------------------------------------- Meta.init
\* Mutant: Meta.init reloads the default every time.
RunsConfig_Always == TRUE

RunsConfig == ~Truthy(config)

Meta_init(stamp) ==
    /\ init_logging_call("tmp", stamp)
    /\ config' = IF RunsConfig THEN bundled ELSE config
    /\ last' = Call("Meta.init", EmptyDict, NonePath, "", NoSearch,
                    LogPathUnset, RunsConfig)
    /\ UNCHANGED <<rng, fsVars, mtVars>>

\* ---------------------------------------------------- Meta.update_config
\* os.path.exists(os.path.join(current_dir, filename))
Exists(current_dir) == PotentialDir(current_dir) \in holders

\* Mutant: no break after a file is merged; the walk goes on upward.
RECURSIVE SearchFrom_NoBreak(_, _)
SearchFrom_NoBreak(current_dir, tries) ==
    IF current_dir = <<>> \/ tries >= MAX_CONFIG_SEARCH_DEPTH
    THEN [merged |-> <<>>, tries |-> tries, logged |-> FALSE]
    ELSE LET new_dir == SplitHead(current_dir)
             rest == IF current_dir = new_dir
                     THEN [merged |-> <<>>, tries |-> tries, logged |-> TRUE]
                     ELSE SearchFrom_NoBreak(new_dir, tries + 1)
         IN IF Exists(current_dir)
            THEN [merged |-> <<current_dir>> \o rest.merged,
                  tries |-> rest.tries, logged |-> rest.logged]
            ELSE rest

\* Mutant: the walk gives up at a directory that does not exist.
RECURSIVE SearchFrom_ExistingOnly(_, _)
SearchFrom_ExistingOnly(current_dir, tries) ==
    IF current_dir = <<>> \/ tries >= MAX_CONFIG_SEARCH_DEPTH
    THEN [merged |-> <<>>, tries |-> tries, logged |-> FALSE]
    ELSE IF ~DirOnDisk(PotentialDir(current_dir))
    THEN [merged |-> <<>>, tries |-> tries, logged |-> TRUE]
    ELSE IF Exists(current_dir)
    THEN [merged |-> <<current_dir>>, tries |-> tries, logged |-> FALSE]
    ELSE LET new_dir == SplitHead(current_dir) IN
         IF current_dir = new_dir
         THEN [merged |-> <<>>, tries |-> tries, logged |-> TRUE]
         ELSE SearchFrom_ExistingOnly(new_dir, tries + 1)

\* The while loop of lines 148-161: the directories whose file is merged,
\* the final value of tries, and whether "Using defaults" was logged.
RECURSIVE SearchFrom(_, _)
SearchFrom(current_dir, tries) ==
    IF current_dir = <<>> \/ tries >= MAX_CONFIG_SEARCH_DEPTH
    THEN [merged |-> <<>>, tries |-> tries, logged |-> FALSE]
    ELSE IF Exists(current_dir)
    THEN [merged |-> <<current_dir>>, tries |-> tries, logged |-> FALSE]
    ELSE LET new_dir == SplitHead(current_dir) IN
         IF current_dir = new_dir
         THEN [merged |-> <<>>, tries |-> tries, logged |-> TRUE]
         ELSE SearchFrom(new_dir, tries + 1)

\* Lines 151-152 for each directory of ds in turn: open, parse, merge.
RECURSIVE MergeFiles(_, _)
MergeFiles(c, ds) ==
    IF ds = <<>> THEN [config |-> c, err |-> ""]
    ELSE LET d == PotentialDir(Head(ds)) IN
         IF d \in bad THEN [config |-> c, err |-> "YAMLError"]
         ELSE IF ~CanMerge(c, FileDoc(d)) THEN [config |-> c, err |-> "TypeError"]
         ELSE MergeFiles(merge(c, FileDoc(d)), Tail(ds))

\* Lines 141-143: the override mapping.
MergeOverride(c, ov) ==
    IF ov # EmptyDict
    THEN IF CanMerge(c, ov) THEN [config |-> merge(c, ov), err |-> ""]
         ELSE [config |-> c, err |-> "TypeError"]
    ELSE [config |-> c, err |-> ""]

\* Lines 145-161: the file search and the merge of what it finds.
MergeSearch(c, path) ==
    IF path.given
    THEN LET r == SearchFrom(path.s, 0)
             f == MergeFiles(c, r.merged)
         IN [config |-> f.config, err |-> f.err, search |-> r]
    ELSE [config |-> c, err |-> "", search |-> NoSearch]

\* Mutant: the discovered file is merged first, the override mapping second.
UpdateResult_FileFirst(c, ov, path) ==
    LET f == MergeSearch(c, path) IN
    IF f.err # "" THEN f
    ELSE LET o == MergeOverride(f.config, ov) IN
         [config |-> o.config, err |-> o.err, search |-> f.search]

\* The whole of update_config on configuration c.
UpdateResult(c, ov, path) ==
    LET o == MergeOverride(c, ov) IN
    IF o.err # "" THEN [config |-> o.config, err |-> o.err, search |-> NoSearch]
    ELSE MergeSearch(o.config, path)

update_config(ov, path) ==
    LET r == UpdateResult(config, ov, path) IN
    /\ config' = r.config
    /\ last' = Call("update_config", ov, path, r.err, r.search, FALSE, FALSE)
    /\ UNCHANGED <<logVars, rng, fsVars, mtVars>>

\* ------------------------------------------------------------------- init
\* Mutant: the updater runs also when config_dir is None.
BootUpdate_Always(c, ov, config_dir) == UpdateResult(c, ov, config_dir)

\* Lines 41-42: the updater runs only when config_dir is given.
BootUpdate(c, ov, config_dir) ==
    IF config_dir.given THEN UpdateResult(c, ov, config_dir)
    ELSE [config |-> c, err |-> "", search |-> NoSearch]

\* Mutant: the seed is read before the update, from the default.
BootSeed_BeforeUpdate(c) == SeedLookup(bundled)

\* Line 44: the seed handed to set_random_seed, read from configuration c.
BootSeed(c) == SeedLookup(c)

init(log_dir, stamp, ov, config_dir) ==
    LET u == BootUpdate(bundled, ov, config_dir)
        s == BootSeed(u.config)
        err == IF u.err # "" THEN u.err ELSE s.err
    IN
    /\ init_logging_call(log_dir, stamp)
    /\ config' = u.config
    /\ rng' = IF err = "" THEN [seeded |-> TRUE, seed |-> s.seed] ELSE rng
    /\ last' = Call("init", ov, config_dir, err, u.search, LogPathUnset, TRUE)
    /\ UNCHANGED <<fsVars, mtVars>>

\* ------------------------------------------------- sequential specification
NoCall ==
    [op |-> "", ov |-> EmptyDict, path |-> NonePath, err |-> "",
     merged |-> <<>>, tries |-> 0, logged |-> FALSE,
     ranLog |-> FALSE, ranCfg |-> FALSE, dirty |-> FALSE]

MainHolders == {{}, {<< <<"a">> >>}, {<<>>, << <<"a">>, <<"a">> >>}}

InitProcess ==
    /\ log_path = NoLogPath
    /\ dirs = {}
    /\ handlers = <<>>
    /\ bodyRuns = 0
    /\ rng = Unseeded
    /\ last = NoCall
    /\ pc = [t \in Threads |-> "idle"]
    /\ active = {}

Init ==
    /\ InitProcess
    /\ config = NoneDoc
    /\ holders \in MainHolders
    /\ bad = {}
    /\ bundled \in BundledDocs

Next ==
    \/ \E d \in LogDirs, s \in Stamps : init_logging(d, s)
    \/ init_config
    \/ \E s \in Stamps : Meta_init(s)
    \/ \E ov \in Overrides, p \in MainPaths : update_config(ov, p)
    \/ \E d \in LogDirs, s \in Stamps, ov \in Overrides, p \in MainPaths :
          init(d, s, ov, p)

Spec == Init /\ [][Next]_vars

\* --------------------------------- specification of the updater's search
InitSearch ==
    /\ InitProcess
    /\ config \in {NoneDoc} \cup BundledDocs
    /\ holders \in SUBSET CandDirs
    /\ bad \in {{}} \cup {{d} : d \in holders}
    /\ bundled = DefaultConfig

\* One call of update_config, the first of the process, on any arguments.
first_update_config(ov, path) == last.op = "" /\ update_config(ov, path)

NextSearch == \E ov \in Overrides, p \in AllPaths : first_update_config(ov, p)

SpecSearch == InitSearch /\ [][NextSearch]_vars

\* ------------------------------------------------ concurrent specification
\* Each thread calls init_logging; the test of line 76 and the body of
\* lines 78-96 are separate steps.
LogCheck(t, log_dir) ==
    /\ pc[t] = "idle"
    /\ pc' = [pc EXCEPT ![t] = IF LogPathUnset THEN log_dir ELSE "idle"]
    /\ active' = active \cup {t}
    /\ last' = Call("init_logging", EmptyDict, NonePath, "", NoSearch,
                    LogPathUnset, FALSE)
    /\ UNCHANGED <<logVars, config, rng, fsVars>>

LogBody(t, stamp) ==
    /\ pc[t] \in LogDirs
    /\ LoggingBody(pc[t], stamp)
    /\ pc' = [pc EXCEPT ![t] = "idle"]
    /\ UNCHANGED <<active, last, config, rng, fsVars>>

NextThreads ==
    \/ \E t \in Threads, d \in LogDirs : LogCheck(t, d)
    \/ \E t \in Threads, s \in Stamps : LogBody(t, s)

SpecThreads == Init /\ [][NextThreads]_vars

\* ------------------------------------------------ vocabulary of the claims
HasSeed(c) == SeedLookup(c).err = ""
SeedOf(c) == SeedLookup(c).seed

\* The directories the upward walk from start passes through, nearest first:
\* start, its parent, and so on, at most n of them, ending at a directory
\* that is its own parent.
RECURSIVE Ancestors(_, _)
Ancestors(d, n) ==
    IF d = <<>> \/ n = 0 THEN <<>>
    ELSE <<d>> \o (IF SplitHead(d) = d THEN <<>> ELSE Ancestors(SplitHead(d), n - 1))

WithinDepth(path) == Ancestors(path.s, MAX_CONFIG_SEARCH_DEPTH)

\* Those of them that hold the named config file, nearest first.
HoldingIn(path) ==
    SelectSeq(WithinDepth(path), LAMBDA d : PotentialDir(d) \in holders)

Nearest(path) == Head(HoldingIn(path))

\* The starting directory does not exist on the filesystem.
StartMissing(path) == path.s = <<>> \/ ~DirOnDisk(PotentialDir(path.s))

\* The configuration the override step leaves, when it does not raise.
AfterOverride(c, ov) == IF c.k = "map" THEN merge(c, ov) ELSE c
OverrideRaises(c, ov) == ov # EmptyDict /\ c.k # "map"

\* The configuration a whole update leaves, when it does not raise.
ExpectedUpdate(c, ov, path) ==
    LET c1 == AfterOverride(c, ov) IN
    IF path.given /\ HoldingIn(path) # <<>>
    THEN merge(c1, FileDoc(PotentialDir(Nearest(path))))
    ELSE c1

Updated == last'.op = "update_config"

\* ------------------------------------------------------------------ claims

\* C1: once Meta.log_path is set, no call of init_logging, init, Meta.init,
\* init_config or update_config changes it, and no later call creates a log
\* directory or installs a handler.
C1_LogPathSetOnce ==
    [][log_path # NoLogPath =>
         /\ log_path' = log_path
         /\ dirs' = dirs
         /\ handlers' = handlers]_vars

\* A repeated init_logging call that found the log path set and refused.
C1_Witness ==
    /\ last.op = "init_logging"
    /\ ~last.ranLog
    /\ log_path # NoLogPath
    /\ handlers = <<log_path>>
    /\ dirs = {log_path}

\* C2: after init_config returns, Meta.config equals the parsed bundled
\* default file, whatever it held before.
C2_ConfigIsDefault == last.op = "init_config" => config = bundled

\* init_config has discarded a configuration that update_config had changed.
C2_Witness ==
    /\ last.op = "init_config"
    /\ last.dirty
    /\ config = bundled
    /\ bundled = DefaultConfig

\* C3: with no config file in any directory, the search ends within 25
\* upward steps and logs that defaults are used, whatever the start path.
C3_AlwaysLogsDefaults ==
    (/\ last.op = "update_config"
     /\ last.path.given
     /\ last.err = ""
     /\ holders = {})
    => (last.tries <= MAX_CONFIG_SEARCH_DEPTH /\ last.logged)

\* The part of C3 that the code does provide: the search is bounded, and at a
\* directory that is its own parent it logs that defaults are used.
C3_Terminates ==
    last.op = "update_config" => last.tries <= MAX_CONFIG_SEARCH_DEPTH

C6_SeedOfFinalConfig ==
    [][last'.op = "init" =>
         /\ log_path' # NoLogPath
         /\ config' = (IF last'.path.given
                        THEN ExpectedUpdate(bundled, last'.ov, last'.path)
                        ELSE bundled)
         /\ HasSeed(config') => (/\ last'.err = ""
                                 /\ rng' = [seeded |-> TRUE, seed |-> SeedOf(config')])
         /\ ~HasSeed(config') => (last'.err = "KeyError" /\ rng' = rng)]_vars

\* A bootstrap over a changed configuration seeded the generator with the
\* seed of the discovered file, not the default's nor the override's.
C6_Witness ==
    /\ last.op = "init"
    /\ last.dirty
    /\ HasSeed(last.ov)
    /\ last.merged # <<>>
    /\ rng.seeded
    /\ rng.seed = SeedOf(FileDoc(PotentialDir(last.merged[1])))
    /\ rng.seed # SeedOf(bundled)

C8_BodyOncePerThread ==
    /\ bodyRuns <= Cardinality(active)
    /\ Cardinality(active) <= 1 => bodyRuns <= 1
    /\ \A t \in Threads : pc[t] # "idle" => t \in active

\* Both threads saw the log path unset and both ran the body: two
\* directories, and the recorded path is not the one the handler writes to.
C8_Witness ==
    /\ bodyRuns = 2
    /\ Cardinality(dirs) = 2
    /\ handlers # <<log_path>>
    /\ \A t \in Threads : pc[t] = "idle"

\* C9: a bootstrap with an override mapping but config_dir None does not run
\* the updater: the configuration is the bundled default.
C9_OverrideNeedsConfigDir ==
    (last.op = "init" /\ ~last.path.given) =>
        (config = bundled /\ last.merged = <<>>)

\* The bootstrap was given a seed override and no directory.
C9_Witness ==
    /\ last.op = "init"
    /\ ~last.path.given
    /\ HasSeed(last.ov)
    /\ config = DefaultConfig
    /\ rng = [seeded |-> TRUE, seed |-> SeedOf(DefaultConfig)]

\* C10: Meta.init() after a configuration was loaded and changed by
\* update_config leaves Meta.log_path and Meta.config unchanged.
C10_MetaInitChangesNothing ==
    [][(last'.op = "Meta.init" /\ Truthy(config) /\ config # bundled) =>
         (log_path' = log_path /\ config' = config)]_vars

\* C10 as amended: Meta.init() runs init_config only on an unset or empty
\* configuration and init_logging only on an unset log path; a changed
\* configuration is kept, and so is a log path that is set.
C10_MetaInitGuarded ==
    [][last'.op = "Meta.init" =>
         /\ config' = (IF Truthy(config) THEN config ELSE bundled)
         /\ log_path # NoLogPath => (log_path' = log_path /\ dirs' = dirs)
         /\ log_path = NoLogPath => log_path' # NoLogPath
         /\ config = EmptyDict => last'.ranCfg]_vars

\* Meta.init() ran on a changed configuration with logging set up, and did
\* neither of its two steps.
C10_Witness ==
    /\ last.op = "Meta.init"
    /\ last.dirty
    /\ ~last.ranCfg
    /\ ~last.ranLog
    /\ config # bundled
    /\ log_path # NoLogPath

====
